---- MODULE Spec2Model ----
(***************************************************************************)
(* Model of github.com/schoren/orderedmap (ordered_map.go).                *)
(*                                                                         *)
(* An OrderedMap value is a Go struct of three reference-typed fields: a   *)
(* slice `list` (pointer to a backing array, len, cap) and two maps        *)
(* `keyPosition`, `positionKey`.  Set and Delete have value receivers, so  *)
(* they work on a copy of the struct, but the copy points at the same      *)
(* backing array and the same two maps as the value it was copied from.    *)
(* The model therefore keeps an explicit heap (`mem`) of backing arrays    *)
(* and maps, and the caller's variables (`h`) hold struct values that      *)
(* refer into it.                                                          *)
(***************************************************************************)
EXTENDS Integers, Sequences, FiniteSets, TLC

\* ---------------------------------------------------------------------
\* Bounds of the model
\* ---------------------------------------------------------------------
\* Set is not called on a container whose list already has MaxLen entries.
MaxLen == 3
\* Longest record list handed to UnmarshalJSON.
MaxRecs == 2
\* A caller that keeps handles makes at most MaxCalls calls.
MaxCalls == 3
\* Largest allocation granule (in elements) of the Go runtime's size classes.
MaxGranule == 2

\* Key type K (string) with its zero value, value type V (string) with its
\* zero value.  The zero key and the zero value are ordinary inputs.
Keys == {"", "a", "b"}
Values == {"", "x"}
ZeroK == ""
ZeroV == ""

\* The caller's variables that hold an OrderedMap: the working variable and
\* a variable in which an earlier handle is kept.
Slots == {"om", "old"}
\* The blank identifier: `_, err = om.Set(...)`.
Discard == "_"
\* Go's nil for the slice pointer and the two maps.
Nil == 0
\* What a read observes when the Go runtime panics (index out of range).
PanicV == "panic"

VARIABLES
    h,        \* h[s]: the OrderedMap struct held by the caller's variable s
    mem,      \* the heap: backing arrays and the two kinds of map
    granule,  \* the build's allocation granule for []V (fixed per build)
    last,     \* the last call: its arguments, its results, its receiver's observables before it
    chain,    \* chain[s]: the Set calls made since New() on an unbroken chain
    panicked, \* a call has panicked; the program has stopped
    calls,    \* the number of calls made by a caller that keeps handles
    held      \* held[s]: the pairs put into the container of s and not deleted since

vars == <<h, mem, granule, last, chain, panicked, calls, held>>

\* ---------------------------------------------------------------------
\* Go maps and slices
\* ---------------------------------------------------------------------
EmptyMap == <<>>

MapHas(mp, k) == k \in DOMAIN mp

\* v := m[k] on a missing key (or a nil map) yields the zero value.
MapGet(mp, k, zero) == IF k \in DOMAIN mp THEN mp[k] ELSE zero

MapPut(mp, k, v) == [x \in (DOMAIN mp) \cup {k} |-> IF x = k THEN v ELSE mp[x]]

MapDelete(mp, k) == [x \in (DOMAIN mp) \ {k} |-> mp[x]]

\* The least identifier not in use in a heap component.
FreshId(f) ==
    CHOOSE n \in 1..(Cardinality(DOMAIN f) + 1) :
        /\ n \notin DOMAIN f
        /\ \A m \in 1..(n - 1) : m \in DOMAIN f

RoundUp(n, g) == ((n + g - 1) \div g) * g

\* runtime.growslice for small slices: double the capacity (or take what is
\* needed if that is more), then round up to the allocator's size class.
GrowCap(oldcap, needed, g) ==
    RoundUp(IF needed > 2 * oldcap THEN needed ELSE 2 * oldcap, g)

\* The zero OrderedMap[K, V]{}: nil list, nil maps.
ZeroMap == [list |-> [arr |-> Nil, len |-> 0, cap |-> 0],
            keyPosition |-> Nil, positionKey |-> Nil]

EmptyMem == [lists |-> <<>>, keyPosition |-> <<>>, positionKey |-> <<>>]

\* The contents of the maps and the backing array an OrderedMap refers to.
KeyPositionOf(m, om) ==
    IF om.keyPosition = Nil THEN EmptyMap ELSE m.keyPosition[om.keyPosition]

PositionKeyOf(m, om) ==
    IF om.positionKey = Nil THEN EmptyMap ELSE m.positionKey[om.positionKey]

ArrayOf(m, om) ==
    IF om.list.arr = Nil THEN <<>> ELSE m.lists[om.list.arr]

\* Garbage collection: heap objects no struct in `roots` refers to are dropped.
Gc(m, roots) ==
    [lists |-> [a \in {om.list.arr : om \in roots} \ {Nil} |-> m.lists[a]],
     keyPosition |-> [a \in {om.keyPosition : om \in roots} \ {Nil} |-> m.keyPosition[a]],
     positionKey |-> [a \in {om.positionKey : om \in roots} \ {Nil} |-> m.positionKey[a]]]

\* ---------------------------------------------------------------------
\* Errors
\* ---------------------------------------------------------------------
NoErr == [type |-> "nil", key |-> ZeroK]

\* Variant: the error is built without its key.
KeyAlreadyExistsError_NoKey(key) == [type |-> "KeyAlreadyExistsError", key |-> ZeroK]

KeyAlreadyExistsError(key) == [type |-> "KeyAlreadyExistsError", key |-> key]

ErrKeyAlreadyExists == [type |-> "ErrKeyAlreadyExists", key |-> ZeroK]

Unwrap(e) == IF e.type = "KeyAlreadyExistsError" THEN ErrKeyAlreadyExists ELSE NoErr

\* errors.Is(e, target)
ErrorIs(e, target) == e # NoErr /\ (e = target \/ Unwrap(e) = target)

\* ---------------------------------------------------------------------
\* The operations of OrderedMap.  Each takes the heap and the receiver and
\* returns the heap after the call together with the call's results.
\* ---------------------------------------------------------------------

\* New(): an empty, non-nil list and two freshly made maps.  The empty
\* slice literal has length and capacity 0 and owns no backing array.
New(m) ==
    LET kp == FreshId(m.keyPosition)
        pk == FreshId(m.positionKey)
    IN  [mem |-> [m EXCEPT !.keyPosition = (kp :> EmptyMap) @@ @,
                           !.positionKey = (pk :> EmptyMap) @@ @],
         ret |-> [list |-> [arr |-> Nil, len |-> 0, cap |-> 0],
                  keyPosition |-> kp, positionKey |-> pk]]

\* Variant: Set makes no maps for a receiver that has none.
SetMakeMaps_Skipped(m, om) == [mem |-> m, om |-> om]

\* Set, lines 133-138: the receiver copy gets maps of its own if it has none.
SetMakeMaps(m, om) ==
    LET kp == IF om.keyPosition = Nil THEN FreshId(m.keyPosition) ELSE om.keyPosition
        pk == IF om.positionKey = Nil THEN FreshId(m.positionKey) ELSE om.positionKey
    IN  [mem |-> [m EXCEPT
                    !.keyPosition = IF om.keyPosition = Nil THEN (kp :> EmptyMap) @@ @ ELSE @,
                    !.positionKey = IF om.positionKey = Nil THEN (pk :> EmptyMap) @@ @ ELSE @],
         om |-> [om EXCEPT !.keyPosition = kp, !.positionKey = pk]]

\* Variant: the receiver is returned next to the error.
SetFailureReturn_Receiver(om) == om

\* The container Set returns next to a KeyAlreadyExistsError (line 141).
SetFailureReturn(om) == ZeroMap

\* Variant: a newly allocated array does not get the old elements.
AppendValue_NoCopy(m, s, val, g) ==
    IF s.len < s.cap
    THEN [mem |-> [m EXCEPT !.lists[s.arr][s.len + 1] = val],
          slice |-> [s EXCEPT !.len = s.len + 1]]
    ELSE LET nc == GrowCap(s.cap, s.len + 1, g)
             id == FreshId(m.lists)
         IN  [mem |-> [m EXCEPT !.lists =
                         (id :> [p \in 1..nc |-> IF p = s.len + 1 THEN val ELSE ZeroV]) @@ @],
              slice |-> [arr |-> id, len |-> s.len + 1, cap |-> nc]]

\* om.list = append(om.list, value): in place when the backing array has
\* room, otherwise into a newly allocated, larger array.
AppendValue(m, s, val, g) ==
    IF s.len < s.cap
    THEN [mem |-> [m EXCEPT !.lists[s.arr][s.len + 1] = val],
          slice |-> [s EXCEPT !.len = s.len + 1]]
    ELSE LET nc == GrowCap(s.cap, s.len + 1, g)
             id == FreshId(m.lists)
             old == IF s.arr = Nil THEN <<>> ELSE m.lists[s.arr]
             new == [p \in 1..nc |-> IF p <= s.len THEN old[p]
                                     ELSE IF p = s.len + 1 THEN val ELSE ZeroV]
         IN  [mem |-> [m EXCEPT !.lists = (id :> new) @@ @],
              slice |-> [arr |-> id, len |-> s.len + 1, cap |-> nc]]

\* Variant: the index is taken one too high (len(om.list) after the append).
SetIndex_OffByOne(m, om, key, ix) ==
    [m EXCEPT !.keyPosition[om.keyPosition] = MapPut(@, key, ix + 1),
              !.positionKey[om.positionKey] = MapPut(@, ix + 1, key)]

\* Set, lines 145-147: the new entry's index and the two index maps.
SetIndex(m, om, key, ix) ==
    [m EXCEPT !.keyPosition[om.keyPosition] = MapPut(@, key, ix),
              !.positionKey[om.positionKey] = MapPut(@, ix, key)]

Set(m, om, key, val, g) ==
    LET i == SetMakeMaps(m, om)
    IN  IF MapHas(KeyPositionOf(i.mem, i.om), key)
        THEN [mem |-> i.mem, ret |-> SetFailureReturn(i.om),
              err |-> KeyAlreadyExistsError(key)]
        ELSE LET a == AppendValue(i.mem, i.om.list, val, g)
                 ix == a.slice.len - 1
             IN  [mem |-> SetIndex(a.mem, i.om, key, ix),
                  ret |-> [i.om EXCEPT !.list = a.slice],
                  err |-> NoErr]

\* Variant: the result of append is not assigned to om.list.
RemoveAt_KeepsLen(m, s, ix) == [mem |-> m, slice |-> s]

\* Variant: the list is cut by one, the tail is not moved down.
RemoveAt_NoMove(m, s, ix) == [mem |-> m, slice |-> [s EXCEPT !.len = s.len - 1]]

\* om.list = append(om.list[:ix], om.list[ix+1:]...): the tail is moved one
\* slot down inside the same backing array; the capacity is unchanged.
RemoveAt(m, s, ix) ==
    [mem |-> [m EXCEPT !.lists[s.arr] =
                 [p \in 1..s.cap |-> IF p >= ix + 1 /\ p <= s.len - 1
                                     THEN @[p + 1] ELSE @[p]]],
     slice |-> [s EXCEPT !.len = s.len - 1]]

\* Variant: delete(om.keyPosition, key) is forgotten.
DeleteEntries_KeepsKey(m, om, key, ix) ==
    [m EXCEPT !.positionKey[om.positionKey] = MapDelete(@, ix)]

\* Delete, lines 160-161.
DeleteEntries(m, om, key, ix) ==
    [m EXCEPT !.keyPosition[om.keyPosition] = MapDelete(@, key),
              !.positionKey[om.positionKey] = MapDelete(@, ix)]

\* Variant: the entries after the deleted one are not renumbered.
DeleteShift_Skipped(kp, pk, i, n) == [keyPosition |-> kp, positionKey |-> pk]

\* Variant: the loop renumbers keyPosition and leaves positionKey alone.
RECURSIVE DeleteShift_KeyPositionOnly(_, _, _, _)
DeleteShift_KeyPositionOnly(kp, pk, i, n) ==
    IF i >= n
    THEN [keyPosition |-> kp, positionKey |-> pk]
    ELSE DeleteShift_KeyPositionOnly(MapPut(kp, MapGet(pk, i + 1, ZeroK), i), pk, i + 1, n)

\* Delete, lines 164-168: for i := ix; i < len(om.list); i++.
RECURSIVE DeleteShift(_, _, _, _)
DeleteShift(kp, pk, i, n) ==
    IF i >= n
    THEN [keyPosition |-> kp, positionKey |-> pk]
    ELSE LET k == MapGet(pk, i + 1, ZeroK)
         IN  DeleteShift(MapPut(kp, k, i), MapPut(pk, i, k), i + 1, n)

\* Delete.  Slicing om.list[ix+1:] panics when ix+1 > len(om.list); the two
\* map deletions before it have then already happened.
Delete(m, om, key) ==
    IF ~MapHas(KeyPositionOf(m, om), key)
    THEN [mem |-> m, ret |-> om, panic |-> FALSE]
    ELSE LET ix == KeyPositionOf(m, om)[key]
             m1 == DeleteEntries(m, om, key, ix)
         IN  IF ix + 1 > om.list.len
             THEN [mem |-> m1, ret |-> om, panic |-> TRUE]
             ELSE LET r == RemoveAt(m1, om.list, ix)
                      sh == DeleteShift(KeyPositionOf(r.mem, om), PositionKeyOf(r.mem, om),
                                        ix, r.slice.len)
                  IN  [mem |-> [r.mem EXCEPT
                                  !.keyPosition[om.keyPosition] = sh.keyPosition,
                                  !.positionKey[om.positionKey] = sh.positionKey],
                       ret |-> [om EXCEPT !.list = r.slice],
                       panic |-> FALSE]

Len_(om) == om.list.len

Contains(m, om, key) == MapHas(KeyPositionOf(m, om), key)

\* Variant: the result `ok` of the map lookup is not tested.
Get_IgnoresOk(m, om, key) ==
    LET ix == MapGet(KeyPositionOf(m, om), key, 0)
    IN  IF ix < 0 \/ ix >= om.list.len THEN PanicV ELSE ArrayOf(m, om)[ix + 1]

\* Get.  om.list[ix] is bounds-checked against len(om.list), not the capacity.
Get(m, om, key) ==
    IF ~MapHas(KeyPositionOf(m, om), key)
    THEN ZeroV
    ELSE LET ix == KeyPositionOf(m, om)[key]
         IN  IF ix < 0 \/ ix >= om.list.len THEN PanicV ELSE ArrayOf(m, om)[ix + 1]

\* ForEach with a visitor that returns an error exactly on the keys in
\* failKeys: the pairs the visitor was called on, and the error returned.
VisitorErr == [type |-> "visitor", key |-> ZeroK]

\* Variant: the loop goes on after the visitor has returned an error.
RECURSIVE ForEachFrom_GoesOn(_, _, _, _, _)
ForEachFrom_GoesOn(m, om, failKeys, ix, visited) ==
    IF ix >= om.list.len
    THEN [visited |-> visited,
          err |-> IF \E n \in 1..Len(visited) : visited[n][1] \in failKeys
                  THEN VisitorErr ELSE NoErr]
    ELSE ForEachFrom_GoesOn(m, om, failKeys, ix + 1,
             Append(visited, <<MapGet(PositionKeyOf(m, om), ix, ZeroK),
                               ArrayOf(m, om)[ix + 1]>>))

RECURSIVE ForEachFrom(_, _, _, _, _)
ForEachFrom(m, om, failKeys, ix, visited) ==
    IF ix >= om.list.len
    THEN [visited |-> visited, err |-> NoErr]
    ELSE LET K == MapGet(PositionKeyOf(m, om), ix, ZeroK)
             v == ArrayOf(m, om)[ix + 1]
         IN  IF K \in failKeys
             THEN [visited |-> Append(visited, <<K, v>>), err |-> VisitorErr]
             ELSE ForEachFrom(m, om, failKeys, ix + 1, Append(visited, <<K, v>>))

ForEach(m, om, failKeys) == ForEachFrom(m, om, failKeys, 0, <<>>)

\* Unordered: m[key] = val for every visited pair (a later pair with the
\* same key overwrites an earlier one).
RECURSIVE UnorderedFrom(_, _, _)
UnorderedFrom(pairs, i, mp) ==
    IF i > Len(pairs) THEN mp
    ELSE UnorderedFrom(pairs, i + 1, MapPut(mp, pairs[i][1], pairs[i][2]))

\* Variant: the first visited pair is not put into the map.
Unordered_SkipsFirst(m, om) == UnorderedFrom(ForEach(m, om, {}).visited, 2, EmptyMap)

Unordered(m, om) == UnorderedFrom(ForEach(m, om, {}).visited, 1, EmptyMap)

\* Variant: the entries are listed last to first.
MarshalJSON_Reversed(m, om) ==
    LET pairs == ForEach(m, om, {}).visited
    IN  [valid |-> TRUE,
         entries |-> [i \in 1..Len(pairs) |->
                        [Key |-> pairs[Len(pairs) + 1 - i][1],
                         Value |-> pairs[Len(pairs) + 1 - i][2]]]]

\* MarshalJSON: the list of jsonOrderedMapEntry{Key, Value} handed to
\* json.Marshal, one per visited pair, in visiting order.
MarshalJSON(m, om) ==
    LET pairs == ForEach(m, om, {}).visited
    IN  [valid |-> TRUE,
         entries |-> [i \in 1..Len(pairs) |-> [Key |-> pairs[i][1], Value |-> pairs[i][2]]]]

\* Input that json.Unmarshal rejects.
Malformed == [valid |-> FALSE, entries |-> <<>>]

DecodeErr == [type |-> "json", key |-> ZeroK]

\* UnmarshalJSON, lines 248-253: newMap, err = newMap.Set(s.Key, s.Value).
RECURSIVE UnmarshalLoop(_, _, _, _, _)
UnmarshalLoop(m, newMap, aux, i, g) ==
    IF i > Len(aux)
    THEN [mem |-> m, newMap |-> newMap, err |-> NoErr]
    ELSE LET r == Set(m, newMap, aux[i].Key, aux[i].Value, g)
         IN  IF r.err # NoErr
             THEN [mem |-> r.mem, newMap |-> r.ret, err |-> r.err]
             ELSE UnmarshalLoop(r.mem, r.ret, aux, i + 1, g)

\* Variant: the receiver is left as it was.
replace_Skipped(om, om2) == om

\* replace: *om = *om2.
replace(om, om2) == om2

\* Variant: the records are set on the receiver itself.
UnmarshalStart_Receiver(om) == om

\* UnmarshalJSON, line 246: newMap := OrderedMap[K, V]{}.
UnmarshalStart(om) == ZeroMap

\* UnmarshalJSON on the container `om` (pointer receiver): the heap after
\* the call, what *om holds after it, and the error returned.
UnmarshalJSON(m, om, data, g) ==
    IF ~data.valid
    THEN [mem |-> m, om |-> om, err |-> DecodeErr]
    ELSE LET r == UnmarshalLoop(m, UnmarshalStart(om), data.entries, 1, g)
         IN  IF r.err # NoErr
             THEN [mem |-> r.mem, om |-> om, err |-> r.err]
             ELSE [mem |-> r.mem, om |-> replace(om, r.newMap), err |-> NoErr]

\* ---------------------------------------------------------------------
\* What a caller can observe of a container through its exported methods.
\* ---------------------------------------------------------------------
Obs(m, om) ==
    [Len |-> Len_(om),
     Contains |-> [k \in Keys |-> Contains(m, om, k)],
     Get |-> [k \in Keys |-> Get(m, om, k)],
     ForEach |-> ForEach(m, om, {}).visited,
     Unordered |-> Unordered(m, om),
     JSON |-> MarshalJSON(m, om)]

KeysOf(pairs) == [i \in 1..Len(pairs) |-> pairs[i][1]]

\* ---------------------------------------------------------------------
\* The caller: a program that holds OrderedMaps in the variables Slots and
\* calls the exported operations on them.  A call on h[i] whose result is
\* assigned to variable j = i is `om = om.Set(...)`; with j # i the caller
\* keeps the old handle h[i]; with j = Discard the result is dropped.
\* ---------------------------------------------------------------------
Roots(hh) == {hh[s] : s \in Slots}

\* Addresses are not observable: after a call the unreachable heap objects
\* are dropped and the remaining ones renumbered 1..n in address order.
Rank(f, id) == IF id = Nil THEN Nil ELSE Cardinality({x \in DOMAIN f : x <= id})

Compact(f) ==
    [n \in 1..Cardinality(DOMAIN f) |-> f[CHOOSE x \in DOMAIN f : Rank(f, x) = n]]

Settle(hh, m) ==
    LET g == Gc(m, Roots(hh))
    IN  [h |-> [s \in Slots |->
                  [list |-> [hh[s].list EXCEPT !.arr = Rank(g.lists, @)],
                   keyPosition |-> Rank(g.keyPosition, hh[s].keyPosition),
                   positionKey |-> Rank(g.positionKey, hh[s].positionKey)]],
         mem |-> [lists |-> Compact(g.lists),
                  keyPosition |-> Compact(g.keyPosition),
                  positionKey |-> Compact(g.positionKey)]]

Assign(hh, j, om) == IF j = Discard THEN hh ELSE [hh EXCEPT ![j] = om]

NoData == [valid |-> TRUE, entries |-> <<>>]

NoCall ==
    [op |-> "none", src |-> Discard, dst |-> Discard, key |-> ZeroK, val |-> ZeroV,
     data |-> NoData, err |-> NoErr, existed |-> FALSE,
     fail |-> {}, visited |-> <<>>,
     pre |-> Obs(EmptyMem, ZeroMap),
     ret |-> Obs(EmptyMem, ZeroMap)]

Broken == [ok |-> FALSE, sets |-> <<>>]

\* held: the record of what the calls put into a container.  It is known
\* (ok) for a container built by calls that each replaced their receiver.
HeldEmpty == [ok |-> TRUE, pairs |-> <<>>]

HeldUnknown == [ok |-> FALSE, pairs |-> <<>>]

RemovePair(pairs, k) == SelectSeq(pairs, LAMBDA p : p[1] # k)

\* held after a call on i assigned to j, `result` being what the call made
\* of held[i]: a call that keeps its receiver next to the result leaves
\* both unknown.
HeldAfter(i, j, result) ==
    [s \in Slots |-> IF s = i /\ s = j THEN (IF held[i].ok THEN result ELSE HeldUnknown)
                     ELSE IF s = i \/ s = j THEN HeldUnknown
                     ELSE held[s]]

\* chain after a call on i assigned to j: only `h[i] = h[i].Set(k, v)` that
\* succeeds extends the chain of i; every other call ends the chains of the
\* variables it reads or writes.
ChainAfter(i, j, extended) ==
    [s \in Slots |-> IF s = i /\ s = j /\ extended # Broken THEN extended
                     ELSE IF s = i \/ s = j THEN Broken
                     ELSE chain[s]]

\* The records that occur in hand-written input: a key with two different
\* values, a second key, and the zero key with the zero value.
Records ==
    {[Key |-> "a", Value |-> "x"], [Key |-> "a", Value |-> ""],
     [Key |-> "b", Value |-> "x"], [Key |-> "", Value |-> ""]}

\* All lists of at most n of these records.
RECURSIVE EntryLists(_)
EntryLists(n) ==
    IF n = 0 THEN {<<>>}
    ELSE LET shorter == EntryLists(n - 1)
         IN  shorter \cup
             {Append(l, e) : l \in {x \in shorter : Len(x) = n - 1}, e \in Records}

Init ==
    /\ h = [s \in Slots |-> ZeroMap]
    /\ mem = EmptyMem
    /\ granule \in 1..MaxGranule
    /\ last = NoCall
    /\ chain = [s \in Slots |-> Broken]
    /\ panicked = FALSE
    /\ calls = 0
    /\ held = [s \in Slots |-> HeldEmpty]

\* The caller is between calls: the last call's results have been taken
\* and nothing has panicked.
Idle == ~panicked /\ last.op = "none"

\* The caller moves on from the last call.
Continue ==
    /\ ~panicked
    /\ last.op # "none"
    /\ last' = NoCall
    /\ UNCHANGED <<h, mem, granule, chain, panicked, calls, held>>

\* var om OrderedMap[K, V]
DeclareCall(j) ==
    LET st == Settle([h EXCEPT ![j] = ZeroMap], mem)
    IN  /\ Idle
        /\ h' = st.h
        /\ mem' = st.mem
        /\ last' = [NoCall EXCEPT !.op = "Declare", !.dst = j, !.pre = Obs(mem, h[j])]
        /\ chain' = [chain EXCEPT ![j] = Broken]
        /\ held' = [held EXCEPT ![j] = HeldEmpty]
        /\ UNCHANGED <<granule, panicked>>

\* om := New()
NewCall(j) ==
    LET r == New(mem)
        st == Settle([h EXCEPT ![j] = r.ret], r.mem)
    IN  /\ Idle
        /\ h' = st.h
        /\ mem' = st.mem
        /\ last' = [NoCall EXCEPT !.op = "New", !.dst = j, !.pre = Obs(mem, h[j]),
                                  !.ret = Obs(r.mem, r.ret)]
        /\ chain' = [chain EXCEPT ![j] = [ok |-> TRUE, sets |-> <<>>]]
        /\ held' = [held EXCEPT ![j] = HeldEmpty]
        /\ UNCHANGED <<granule, panicked>>

\* h[j], err = h[i].Set(key, val)
SetCall(i, j, key, val) ==
    LET r == Set(mem, h[i], key, val, granule)
        st == Settle(Assign(h, j, r.ret), r.mem)
    IN  /\ Idle
        /\ Contains(mem, h[i], key) \/ Len_(h[i]) < MaxLen
        /\ h' = st.h
        /\ mem' = st.mem
        /\ last' = [op |-> "Set", src |-> i, dst |-> j, key |-> key, val |-> val,
                    data |-> NoData, err |-> r.err,
                    existed |-> Contains(mem, h[i], key),
                    fail |-> {}, visited |-> <<>>,
                    pre |-> Obs(mem, h[i]),
                    ret |-> Obs(r.mem, r.ret)]
        /\ chain' = ChainAfter(i, j,
                        IF r.err = NoErr /\ chain[i].ok
                        THEN [ok |-> TRUE, sets |-> Append(chain[i].sets, <<key, val>>)]
                        ELSE Broken)
        /\ held' = IF r.err # NoErr /\ j = Discard THEN held
                   ELSE HeldAfter(i, j,
                            IF r.err = NoErr
                            THEN [ok |-> TRUE, pairs |-> Append(held[i].pairs, <<key, val>>)]
                            ELSE HeldEmpty)
        /\ UNCHANGED <<granule, panicked>>

\* h[j] = h[i].Delete(key)
DeleteCall(i, j, key) ==
    LET r == Delete(mem, h[i], key)
        st == Settle(IF r.panic THEN h ELSE Assign(h, j, r.ret), r.mem)
    IN  /\ Idle
        /\ h' = st.h
        /\ mem' = st.mem
        /\ last' = [op |-> "Delete", src |-> i, dst |-> j, key |-> key, val |-> ZeroV,
                    data |-> NoData, err |-> NoErr,
                    existed |-> Contains(mem, h[i], key),
                    fail |-> {}, visited |-> <<>>,
                    pre |-> Obs(mem, h[i]),
                    ret |-> Obs(r.mem, r.ret)]
        /\ chain' = ChainAfter(i, j, Broken)
        /\ held' = HeldAfter(i, j,
                       IF r.panic THEN HeldUnknown
                       ELSE [ok |-> TRUE, pairs |-> RemovePair(held[i].pairs, key)])
        /\ panicked' = r.panic
        /\ UNCHANGED granule

\* err = h[j].UnmarshalJSON(data)
UnmarshalCall(j, data) ==
    LET r == UnmarshalJSON(mem, h[j], data, granule)
        st == Settle([h EXCEPT ![j] = r.om], r.mem)
    IN  /\ Idle
        /\ h' = st.h
        /\ mem' = st.mem
        /\ last' = [op |-> "UnmarshalJSON", src |-> j, dst |-> j, key |-> ZeroK,
                    val |-> ZeroV, data |-> data, err |-> r.err,
                    existed |-> FALSE,
                    fail |-> {}, visited |-> <<>>,
                    pre |-> Obs(mem, h[j]),
                    ret |-> Obs(r.mem, r.om)]
        /\ chain' = [chain EXCEPT ![j] = Broken]
        /\ held' = IF r.err # NoErr THEN held
                   ELSE [held EXCEPT ![j] =
                           [ok |-> TRUE,
                            pairs |-> [n \in 1..Len(data.entries) |->
                                         <<data.entries[n].Key, data.entries[n].Value>>]]]
        /\ UNCHANGED <<granule, panicked>>

\* err = h[i].ForEach(fn), fn returning an error exactly on the keys in failKeys
ForEachCall(i, failKeys) ==
    LET r == ForEach(mem, h[i], failKeys)
    IN  /\ Idle
        /\ last' = [NoCall EXCEPT !.op = "ForEach", !.src = i, !.err = r.err,
                                  !.fail = failKeys, !.visited = r.visited,
                                  !.pre = Obs(mem, h[i]), !.ret = Obs(mem, h[i])]
        /\ UNCHANGED <<h, mem, granule, chain, panicked, held>>

\* The inputs UnmarshalJSON is called with: malformed text, any short record
\* list, and the output of MarshalJSON on the container the caller holds.
Inputs(i) ==
    {Malformed} \cup {[valid |-> TRUE, entries |-> l] : l \in EntryLists(MaxRecs)}
                \cup {MarshalJSON(mem, h[i])}

\* A caller that follows the chaining discipline of the package's examples
\* and tests: one variable, and every result replaces the container it was
\* computed from (om = om.Set(...), om = om.Delete(...)); only the result
\* of a failed Set may be dropped (_, err = om.Set(...)).
Next ==
    \/ DeclareCall("om") /\ UNCHANGED calls
    \/ NewCall("om") /\ UNCHANGED calls
    \/ \E k \in Keys, v \in Values : SetCall("om", "om", k, v) /\ UNCHANGED calls
    \/ \E k \in Keys, v \in Values :
          Contains(mem, h["om"], k) /\ SetCall("om", Discard, k, v) /\ UNCHANGED calls
    \/ \E k \in Keys : DeleteCall("om", "om", k) /\ UNCHANGED calls
    \/ \E d \in Inputs("om") : UnmarshalCall("om", d) /\ UNCHANGED calls
    \/ \E f \in SUBSET Keys : ForEachCall("om", f) /\ UNCHANGED calls
    \/ Continue

Spec == Init /\ [][Next]_vars

\* A caller that keeps handles: starting from New() or from the zero value,
\* the result of a Set or Delete on either variable may be assigned to
\* either variable or dropped, so an earlier handle stays in use next to
\* the containers derived from it.  It makes at most MaxCalls calls.
Counted == calls' = calls + 1

SharedNext ==
    \/ calls = 0 /\ NewCall("om") /\ UNCHANGED calls
    \/ \E i \in Slots, j \in Slots \cup {Discard}, k \in Keys, v \in Values :
          calls < MaxCalls /\ SetCall(i, j, k, v) /\ Counted
    \/ \E i \in Slots, j \in Slots \cup {Discard}, k \in Keys :
          calls < MaxCalls /\ DeleteCall(i, j, k) /\ Counted
    \/ Continue

SharedSpec == Init /\ [][SharedNext]_vars

\* ---------------------------------------------------------------------
\* Properties
\* ---------------------------------------------------------------------
EmptyObs == Obs(EmptyMem, ZeroMap)

\* The observables of the container the last call was made on, now.
ReceiverNow == Obs(mem, h[last.src])

\* The call's receiver is still held by the caller (the result went elsewhere).
ReceiverKept == last.src \in Slots /\ last.dst # last.src

EntriesOf(pairs) == [i \in 1..Len(pairs) |-> [Key |-> pairs[i][1], Value |-> pairs[i][2]]]

PairsOf(entries) == [i \in 1..Len(entries) |-> <<entries[i].Key, entries[i].Value>>]

Without(seq, k) == SelectSeq(seq, LAMBDA x : x # k)

Range(seq) == {seq[i] : i \in 1..Len(seq)}

DuplicateAt(entries) ==
    {i \in 1..Len(entries) : \E j \in 1..(i - 1) : entries[j].Key = entries[i].Key}

FirstDuplicateKey(entries) ==
    entries[CHOOSE i \in DuplicateAt(entries) : \A j \in DuplicateAt(entries) : i <= j].Key

\* ---------------------------------------------------------------------
\* Two containers given the same calls: "om" is made by New(), "old" is
\* left a declared zero value, and every Set and Delete called on "om" is
\* then called on "old" with the same arguments.
\* ---------------------------------------------------------------------

\* The call on "om" has not been repeated on "old" yet.
Owed == last.op \in {"Set", "Delete"} /\ last.src = "om"

\* old, err = old.Set(key, val) or old = old.Delete(key), with the
\* arguments of the call just made on "om".
SameCall ==
    LET set == last.op = "Set"
        r == IF set
             THEN Set(mem, h["old"], last.key, last.val, granule)
             ELSE [Delete(mem, h["old"], last.key) EXCEPT !.panic = FALSE] @@
                  [err |-> NoErr]
        stopped == ~set /\ Delete(mem, h["old"], last.key).panic
        st == Settle(IF stopped THEN h ELSE Assign(h, "old", r.ret), r.mem)
    IN  /\ ~panicked
        /\ Owed
        /\ h' = st.h
        /\ mem' = st.mem
        /\ last' = [last EXCEPT !.src = "old", !.dst = "old", !.err = r.err,
                                !.existed = Contains(mem, h["old"], last.key),
                                !.pre = Obs(mem, h["old"]),
                                !.ret = Obs(r.mem, r.ret)]
        /\ chain' = [chain EXCEPT !["old"] = Broken]
        /\ held' = [held EXCEPT !["old"] =
                       IF stopped THEN HeldUnknown
                       ELSE IF ~set THEN [ok |-> TRUE, pairs |-> RemovePair(@.pairs, last.key)]
                       ELSE IF r.err = NoErr
                            THEN [ok |-> TRUE, pairs |-> Append(@.pairs, <<last.key, last.val>>)]
                            ELSE HeldEmpty]
        /\ panicked' = stopped
        /\ UNCHANGED <<granule, calls>>

PairNext ==
    \/ h["om"] = ZeroMap /\ h["old"] = ZeroMap /\ NewCall("om") /\ UNCHANGED calls
    \/ /\ h["om"] # ZeroMap
       /\ \E k \in Keys, v \in Values : SetCall("om", "om", k, v)
       /\ UNCHANGED calls
    \/ /\ h["om"] # ZeroMap
       /\ \E k \in Keys : DeleteCall("om", "om", k)
       /\ UNCHANGED calls
    \/ SameCall
    \/ ~Owed /\ Continue

PairSpec == Init /\ [][PairNext]_vars

\* C1: after c2 = c.Set(k, v) with k absent from c, every observable of the
\* kept handle c (Len, Contains, Get, the ForEach sequence) is what it was
\* before the call.
C1_SetLeavesKeptHandle ==
    (last.op = "Set" /\ ~last.existed /\ ReceiverKept) => ReceiverNow = last.pre

\* C2: after c2 = c.Delete(k) with k present in c, every observable of the
\* kept handle c is what it was before the call.
C2_DeleteLeavesKeptHandle ==
    (last.op = "Delete" /\ last.existed /\ ReceiverKept /\ ~panicked)
        => ReceiverNow = last.pre

\* C3: after N Set calls with pairwise distinct keys, chained from New(),
\* ForEach visits and MarshalJSON lists exactly the N pairs in call order.
C3_OrderPreserved ==
    \A s \in Slots :
        chain[s].ok =>
            /\ ForEach(mem, h[s], {}) = [visited |-> chain[s].sets, err |-> NoErr]
            /\ MarshalJSON(mem, h[s]) = [valid |-> TRUE, entries |-> EntriesOf(chain[s].sets)]
            /\ Len_(h[s]) = Len(chain[s].sets)
            /\ \A k \in Keys : Contains(mem, h[s], k) <=> k \in Range(KeysOf(chain[s].sets))

C3_Witness ==
    /\ chain["om"].ok
    /\ Len(chain["om"].sets) = 3
    /\ KeysOf(chain["om"].sets) = <<"b", "", "a">>

\* C4: Set(k, v) on a container that holds k fails with an error that
\* matches ErrKeyAlreadyExists and carries k, and the container it was
\* called on keeps its Len, Contains, Get and ForEach order.
C4_DuplicateSetFails ==
    (last.op = "Set" /\ last.existed) =>
        /\ ErrorIs(last.err, ErrKeyAlreadyExists)
        /\ last.err.type = "KeyAlreadyExistsError" /\ last.err.key = last.key
        /\ ReceiverKept => ReceiverNow = last.pre

C4_Witness ==
    /\ last.op = "Set" /\ last.existed /\ ReceiverKept
    /\ last.key = "b"
    /\ last.pre.Len = 3

\* C5 as stated: the container returned by a failed Set has the Len, keys,
\* values and order of the container Set was called on.
C5_FailedSetReturnsReceiver ==
    (last.op = "Set" /\ last.existed) => last.ret = last.pre

\* C5 amended: the container returned by a failed Set is the empty zero
\* value (Len 0, no key, nothing visited), so after om, err = om.Set(k, v)
\* on a duplicate key om is empty.
C5_FailedSetReturnsZero ==
    (last.op = "Set" /\ last.existed) =>
        /\ last.ret = EmptyObs
        /\ last.dst \in Slots => Obs(mem, h[last.dst]) = EmptyObs

C5_Witness ==
    /\ last.op = "Set" /\ last.existed /\ last.dst = "om"
    /\ last.pre.Len = 2
    /\ Len_(h["om"]) = 0

\* C6: Delete(k) with k present returns a container with one entry less,
\* without k, whose key sequence is the previous one with k removed;
\* Delete(k) with k absent returns a container with the same observables.
C6_DeleteCorrect ==
    (last.op = "Delete" /\ ~panicked) =>
        IF last.existed
        THEN /\ last.ret.Len = last.pre.Len - 1
             /\ ~last.ret.Contains[last.key]
             /\ KeysOf(last.ret.ForEach) = Without(KeysOf(last.pre.ForEach), last.key)
             /\ last.dst \in Slots => Obs(mem, h[last.dst]) = last.ret
        ELSE /\ last.ret = last.pre
             /\ last.dst \in Slots => Obs(mem, h[last.dst]) = last.pre

C6_Witness ==
    /\ last.op = "Delete" /\ last.existed
    /\ last.pre.Len = 3
    /\ last.pre.ForEach[2][1] = last.key
    /\ KeysOf(Obs(mem, h["om"]).ForEach) = <<"b", "a">>

\* C7: UnmarshalJSON of a record list in which two records share a key
\* returns an error matching ErrKeyAlreadyExists for that key and leaves
\* the target's Len, keys, values and order as they were.
C7_FailedUnmarshalKeepsTarget ==
    (last.op = "UnmarshalJSON" /\ last.data.valid /\ DuplicateAt(last.data.entries) # {}) =>
        /\ ErrorIs(last.err, ErrKeyAlreadyExists)
        /\ last.err.type = "KeyAlreadyExistsError"
        /\ last.err.key = FirstDuplicateKey(last.data.entries)
        /\ Obs(mem, h[last.dst]) = last.pre

C7_Witness ==
    /\ last.op = "UnmarshalJSON" /\ last.data.valid
    /\ DuplicateAt(last.data.entries) # {}
    /\ last.pre.Len = 2
    /\ ~last.pre.Contains[last.data.entries[1].Key]

\* C8: unmarshalling the output of c.MarshalJSON() yields a container with
\* the Len of c, the ForEach key order of c and the Get results of c.
C8_RoundTrip ==
    (last.op = "UnmarshalJSON" /\ last.data = last.pre.JSON) =>
        /\ last.err = NoErr
        /\ Obs(mem, h[last.dst]).Len = last.pre.Len
        /\ KeysOf(Obs(mem, h[last.dst]).ForEach) = KeysOf(last.pre.ForEach)
        /\ Obs(mem, h[last.dst]).Get = last.pre.Get

C8_Witness ==
    /\ last.op = "UnmarshalJSON" /\ last.data = last.pre.JSON
    /\ last.pre.Len = 3
    /\ KeysOf(last.pre.ForEach) = <<"a", "", "b">>

\* C9: after a successful UnmarshalJSON the target holds exactly the
\* decoded records, in decoded order, and no entry it held before.
C9_UnmarshalReplaces ==
    (last.op = "UnmarshalJSON" /\ last.err = NoErr) =>
        LET now == Obs(mem, h[last.dst])
            decoded == PairsOf(last.data.entries)
        IN  /\ now.ForEach = decoded
            /\ now.Len = Len(decoded)
            /\ \A k \in Keys : now.Contains[k] <=> k \in Range(KeysOf(decoded))
            /\ \A i \in 1..Len(decoded) : now.Get[decoded[i][1]] = decoded[i][2]
            /\ \A k \in Keys :
                 (last.pre.Contains[k] /\ k \notin Range(KeysOf(decoded)))
                     => ~now.Contains[k] /\ k \notin Range(KeysOf(now.ForEach))

C9_Witness ==
    /\ last.op = "UnmarshalJSON" /\ last.err = NoErr
    /\ last.pre.Len = 2
    /\ Len(last.data.entries) = 1
    /\ \E k \in Keys : last.pre.Contains[k] /\ ~Contains(mem, h[last.dst], k)

\* C10: deleting k from the result of Delete(c, k) gives a container with
\* the same Len, Contains, Get and ForEach sequence as that result.
C10_DeleteIdempotent ==
    (last.op = "Delete" /\ ~panicked /\ last.dst \in Slots) =>
        LET again == Delete(mem, h[last.dst], last.key)
        IN  /\ ~again.panic
            /\ Obs(again.mem, again.ret) = Obs(mem, h[last.dst])

C10_Witness ==
    /\ last.op = "Delete" /\ last.existed /\ last.dst = "om"
    /\ last.pre.Len = 3
    /\ last.pre.ForEach[1][1] = last.key

\* The index of the first pair on which a visitor failing on `fail` returns
\* its error, 0 when it returns none.
FirstFailure(pairs, fail) ==
    IF \E n \in 1..Len(pairs) : pairs[n][1] \in fail
    THEN CHOOSE n \in 1..Len(pairs) :
             /\ pairs[n][1] \in fail
             /\ \A p \in 1..(n - 1) : pairs[p][1] \notin fail
    ELSE 0

\* C11: ForEach calls the visitor on the entries in insertion order up to
\* and including the first one on which the visitor returns an error, on
\* none after it, and returns that error; with a visitor that returns no
\* error it calls it on every entry once and returns nil.
C11_ForEachShortCircuits ==
    (last.op = "ForEach" /\ held[last.src].ok) =>
        LET entries == held[last.src].pairs
            n == FirstFailure(entries, last.fail)
        IN  IF n # 0
            THEN /\ last.visited = SubSeq(entries, 1, n)
                 /\ last.err = VisitorErr
            ELSE /\ last.visited = entries
                 /\ last.err = NoErr

C11_Witness ==
    /\ last.op = "ForEach" /\ held[last.src].ok
    /\ Len(held[last.src].pairs) = 3
    /\ FirstFailure(held[last.src].pairs, last.fail) = 2
    /\ held[last.src].pairs[3][1] \in last.fail

\* C12: a declared zero value has Len 0, Contains false, Get the zero
\* value, ForEach nothing and Delete returning it unchanged, none of them
\* failing; every first Set on it succeeds and gives Len 1; and a
\* zero-started and a New()-started container that were given the same Set
\* and Delete calls have the same observables.
C12_ZeroValueReady ==
    /\ ~Owed => Obs(mem, h["om"]) = Obs(mem, h["old"])
    /\ h["old"] = ZeroMap =>
          LET o == Obs(mem, h["old"])
          IN  /\ o.Len = 0
              /\ o.ForEach = <<>>
              /\ \A k \in Keys :
                    /\ o.Contains[k] = FALSE
                    /\ o.Get[k] = ZeroV
                    /\ Delete(mem, h["old"], k) = [mem |-> mem, ret |-> h["old"], panic |-> FALSE]
                    /\ \A v \in Values :
                          LET r == Set(mem, h["old"], k, v, granule)
                          IN  r.err = NoErr /\ Obs(r.mem, r.ret).Len = 1
    /\ (last.op = "Set" /\ last.src = "old" /\ last.pre.Len = 0) =>
          last.err = NoErr /\ Obs(mem, h["old"]).Len = 1

\* "old", started as a zero value, holds two entries after the calls that
\* were made on the container from New(), which has maps of its own.
C12_Witness ==
    /\ last.op = "Set" /\ last.src = "old" /\ last.err = NoErr
    /\ h["om"].keyPosition # h["old"].keyPosition
    /\ Obs(mem, h["old"]).Len = 2
    /\ KeysOf(Obs(mem, h["old"]).ForEach) = <<"b", "a">>
    /\ held["old"].ok /\ held["om"].ok

\* The value put with key k among the pairs.
ValueOf(pairs, k) == pairs[CHOOSE n \in 1..Len(pairs) : pairs[n][1] = k][2]

\* C13: on a container built by Set and Delete calls, a key that was not
\* put, or was deleted since, has Contains false and Get the zero value,
\* and a key that was put and not deleted has Contains true and Get the
\* value it was put with; Get does not fail.
C13_GetAndContains ==
    held["om"].ok =>
        LET o == Obs(mem, h["om"])
            put == held["om"].pairs
        IN  \A k \in Keys :
                IF k \in Range(KeysOf(put))
                THEN o.Contains[k] /\ o.Get[k] = ValueOf(put, k)
                ELSE ~o.Contains[k] /\ o.Get[k] = ZeroV

C13_Witness ==
    /\ last.op = "Delete" /\ last.existed /\ last.src = "om" /\ held["om"].ok
    /\ last.pre.Len = 3
    /\ last.pre.ForEach[1][1] = last.key
    /\ last.pre.Get[last.key] = "x"
    /\ Obs(mem, h["om"]).Get[last.key] = ZeroV
    /\ \E k \in Keys : Obs(mem, h["om"]).Get[k] = "x"

\* C14: the map Unordered returns has exactly the keys for which Contains
\* is true, gives each of them the value Get gives, and has Len entries.
C14_UnorderedHasTheEntries ==
    held["om"].ok =>
        LET o == Obs(mem, h["om"])
        IN  /\ DOMAIN o.Unordered = {k \in Keys : o.Contains[k]}
            /\ \A k \in DOMAIN o.Unordered : o.Unordered[k] = o.Get[k]
            /\ Cardinality(DOMAIN o.Unordered) = o.Len

C14_Witness ==
    /\ last.op = "Delete" /\ last.existed /\ last.src = "om" /\ held["om"].ok
    /\ last.pre.Len = 3
    /\ last.pre.ForEach[2][1] = last.key
    /\ DOMAIN Obs(mem, h["om"]).Unordered = Keys \ {last.key}
    /\ \E k \in Keys \ {last.key} : Obs(mem, h["om"]).Unordered[k] = "x"

\* C15: after every call of a chain the list, keyPosition and positionKey
\* of the container have the same size, and positionKey has no entry for
\* an index at or past len(list).
C15_SizesEqual ==
    LET om == h["om"]
    IN  /\ Cardinality(DOMAIN KeyPositionOf(mem, om)) = Len_(om)
        /\ Cardinality(DOMAIN PositionKeyOf(mem, om)) = Len_(om)
        /\ \A ix \in DOMAIN PositionKeyOf(mem, om) : ix < Len_(om)

\* C16: after every call of a chain keyPosition maps each present key to an
\* index in [0, len(list)), no two keys to the same index, every index in
\* [0, len(list)) is the index of some key, and positionKey maps the index
\* of each present key back to that key.
C16_IndexConsistent ==
    LET om == h["om"]
        kp == KeyPositionOf(mem, om)
        pk == PositionKeyOf(mem, om)
    IN  /\ \A k \in DOMAIN kp : kp[k] >= 0 /\ kp[k] < Len_(om)
        /\ \A k1, k2 \in DOMAIN kp : kp[k1] = kp[k2] => k1 = k2
        /\ \A ix \in 0..(Len_(om) - 1) : \E k \in DOMAIN kp : kp[k] = ix
        /\ \A k \in DOMAIN kp : kp[k] \in DOMAIN pk /\ pk[kp[k]] = k

C16_Witness ==
    /\ last.op = "Delete" /\ last.existed /\ last.dst = "om" /\ ~panicked
    /\ last.pre.Len = 3
    /\ last.pre.ForEach[1][1] = last.key
    /\ Len_(h["om"]) = 2
    /\ Cardinality(DOMAIN PositionKeyOf(mem, h["om"])) = 3

\* C17: Set(k, v) on the result of deleting the present key k succeeds and
\* puts k last, with v, after the entries the Delete left, which are the
\* entries from before the Delete without k, in their order and with their
\* values; wherever k was when it was deleted.
C17_ReinsertGoesLast ==
    (last.op = "Delete" /\ last.existed /\ last.dst = "om" /\ ~panicked) =>
        \A v \in Values :
            LET r == Set(mem, h["om"], last.key, v, granule)
                was == Obs(mem, h["om"])
                now == Obs(r.mem, r.ret)
            IN  /\ r.err = NoErr
                /\ was.ForEach = RemovePair(last.pre.ForEach, last.key)
                /\ now.ForEach = Append(was.ForEach, <<last.key, v>>)
                /\ now.Len = was.Len + 1
                /\ KeyPositionOf(r.mem, r.ret)[last.key] = now.Len - 1
                /\ \A k \in Keys \ {last.key} :
                      now.Get[k] = last.pre.Get[k] /\ now.Contains[k] = last.pre.Contains[k]

C17_Witness ==
    /\ last.op = "Delete" /\ last.existed /\ last.dst = "om" /\ ~panicked
    /\ last.pre.Len = 3
    /\ last.pre.ForEach[2][1] = last.key
    /\ last.pre.ForEach[1][2] # last.pre.ForEach[3][2]

\* C18: Set(k, v) with k absent from a container of n entries returns no
\* error and a container of n + 1 entries in which Contains(k) holds,
\* Get(k) = v, k has index n and is visited last, and every other key is
\* present as before, with its value and at its position.
C18_InsertPostcondition ==
    (last.op = "Set" /\ ~last.existed /\ last.dst = "om") =>
        /\ last.err = NoErr
        /\ last.ret.Len = last.pre.Len + 1
        /\ last.ret.Contains[last.key]
        /\ last.ret.Get[last.key] = last.val
        /\ last.ret.ForEach = Append(last.pre.ForEach, <<last.key, last.val>>)
        /\ KeyPositionOf(mem, h["om"])[last.key] = last.pre.Len
        /\ Obs(mem, h["om"]) = last.ret
        /\ \A k \in Keys \ {last.key} :
              /\ last.ret.Contains[k] = last.pre.Contains[k]
              /\ last.ret.Get[k] = last.pre.Get[k]

C18_Witness ==
    /\ last.op = "Set" /\ ~last.existed /\ last.dst = "om"
    /\ last.pre.Len = 2
    /\ last.pre.ForEach[1][2] # last.pre.ForEach[2][2]
    /\ Cardinality(DOMAIN PositionKeyOf(mem, h["om"])) = 3

\* C19: Delete(k) leaves every other key with the Contains and Get it had,
\* and ForEach on the result gives the pairs from before without the pair
\* of k, each key with the value it was put with.
C19_DeleteKeepsBindings ==
    (last.op = "Delete" /\ last.dst = "om" /\ ~panicked) =>
        /\ \A x \in Keys \ {last.key} :
              /\ last.ret.Get[x] = last.pre.Get[x]
              /\ last.ret.Contains[x] = last.pre.Contains[x]
        /\ last.ret.ForEach = RemovePair(last.pre.ForEach, last.key)
        /\ Obs(mem, h["om"]) = last.ret
        /\ held["om"].ok => last.ret.ForEach = held["om"].pairs

C19_Witness ==
    /\ last.op = "Delete" /\ last.existed /\ last.dst = "om" /\ ~panicked
    /\ held["om"].ok
    /\ last.pre.Len = 3
    /\ last.pre.ForEach[1][1] = last.key
    /\ last.pre.ForEach[1][2] # last.pre.ForEach[2][2]
    /\ last.pre.ForEach[2][2] # last.pre.ForEach[3][2]

\* C20: Get on a handle the caller holds, kept from before later Set or
\* Delete calls included, returns a stored value or the zero value and
\* does not index the list out of range.
C20_GetNeverPanics ==
    \A s \in Slots : \A x \in Keys : Get(mem, h[s], x) # PanicV

====
